---- MODULE Spec2Model ----
(***************************************************************************)
(* pywa/types/template.py: the placeholder extractor, the definition-time  *)
(* components of NewTemplate and the send-time components of Template,    *)
(* with the two assemblers NewTemplate.to_dict and Template.to_dict.       *)
(*                                                                         *)
(* Representation.                                                         *)
(*  - A Python str that the code scans or rewrites is a sequence of        *)
(*    one-character strings (<<"H","i">> is 'Hi'); an opaque str (a name,  *)
(*    a code, a media id) is a TLA+ string.                                *)
(*  - An object is a record with a cls field naming its class and one      *)
(*    field per dataclass field; None is the record None.                  *)
(*  - A list or tuple held in an attribute that may also hold None or     *)
(*    another object is a record [cls |-> "list" | "tuple", items |-> s]. *)
(*  - A one-shot iterator (a generator, iter(...)) held in such an         *)
(*    attribute is a record [cls |-> "iterator", items |-> s], s being the *)
(*    elements it has yet to yield; iterating over it takes them away.     *)
(*  - A dict is a record; a key the code leaves out is a field the record  *)
(*    does not have.  A tuple inside a dict is a sequence.  The empty dict *)
(*    {} is the empty function <<>>.                                       *)
(*  - A call either returns or raises: Returned(v) / Raised(exception).    *)
(***************************************************************************)
EXTENDS Integers, Sequences, FiniteSets, TLC

VARIABLES
    unit,           \* which part of the module this run exercises
    ex_string,      \* extractor: the argument string of the last call
    ex_ret,         \* extractor: outcome of _get_examples_from_placeholders(ex_string)
    ex_ret2,        \* extractor: outcome of a second call on the first call's string
    comp_args,      \* the object as the last component constructor call received it
    comp,           \* a definition-time component object (TextHeader, Body, UrlButton, ...)
    comp_new,       \* outcome of the component constructor call
    comp_placeholder, \* the placeholder argument of the last comp.to_dict call
    comp_ret,       \* outcome of comp.to_dict(placeholder)
    nt_args,        \* arguments of the last NewTemplate(...) call
    nt,             \* the NewTemplate object (None when the constructor raised / not called)
    nt_new,         \* outcome of the NewTemplate(...) call
    nt_self,        \* the NewTemplate object as the last nt.to_dict call found it
    nt_placeholder, \* the placeholder argument of the last nt.to_dict call
    nt_ret,         \* outcome of the last nt.to_dict(placeholder)
    tpl_args,       \* arguments of the last Template(...) call
    tpl,            \* the Template object
    tpl_new,        \* outcome of the Template(...) call
    tpl_self,       \* the Template object as the last tpl.to_dict call found it
    tpl_is_header_url, \* the is_header_url argument of the last tpl.to_dict call
    tpl_ret         \* outcome of the last tpl.to_dict(is_header_url)

ex_vars   == <<ex_string, ex_ret, ex_ret2>>
comp_vars == <<comp_args, comp, comp_new, comp_placeholder, comp_ret>>
nt_vars   == <<nt_args, nt, nt_new, nt_self, nt_placeholder, nt_ret>>
tpl_vars  == <<tpl_args, tpl, tpl_new, tpl_self, tpl_is_header_url, tpl_ret>>
vars      == <<unit, ex_string, ex_ret, ex_ret2,
               comp_args, comp, comp_new, comp_placeholder, comp_ret,
               nt_args, nt, nt_new, nt_self, nt_placeholder, nt_ret,
               tpl_args, tpl, tpl_new, tpl_self, tpl_is_header_url, tpl_ret>>

----------------------------------------------------------------------------
(* Bounds of the model.                                                    *)

\* longest argument string given to the extractor on its own
MaxLen == 6
\* longest list of definition-time buttons (NewTemplate.buttons)
MaxNewButtons == 2
\* longest list of send-time body values (Template.body)
MaxBody == 2
\* longest list of send-time buttons (Template.buttons)
MaxButtons == 2

----------------------------------------------------------------------------
(* Outcomes of a call.                                                     *)

None == [cls |-> "None"]
NotCalled == [status |-> "not_called"]
Returned(v) == [status |-> "returned", value |-> v]
Raised(e) == [status |-> "raised", exc |-> e]

IsReturned(r) == r.status = "returned"
IsRaised(r) == r.status = "raised"

----------------------------------------------------------------------------
(* Strings.                                                                *)

\* all sequences over S of length 0..n
RECURSIVE SeqsUpTo(_, _)
SeqsUpTo(S, n) ==
    IF n = 0 THEN {<<>>}
    ELSE LET shorter == SeqsUpTo(S, n - 1)
         IN  shorter \cup {Append(s, c) : s \in {t \in shorter : Len(t) = n - 1}, c \in S}

\* characters of the strings given to the extractor on its own
Alphabet == {"{", "}", "a", "1"}

\* the default values of the parameters start and end
DefaultStart == "{"
DefaultEnd == "}"

Digit == <<"0", "1", "2", "3", "4", "5", "6", "7", "8", "9">>

\* str(idx) for an int idx >= 0
RECURSIVE PyStr(_)
PyStr(n) ==
    IF n < 10 THEN <<Digit[n + 1]>>
    ELSE PyStr(n \div 10) \o <<Digit[(n % 10) + 1]>>

\* least index j >= i with s[j] = c; 0 when there is none
RECURSIVE IndexFrom(_, _, _)
IndexFrom(s, c, i) ==
    IF i > Len(s) THEN 0
    ELSE IF s[i] = c THEN i
    ELSE IndexFrom(s, c, i + 1)

\* [m.group(1) for m in re.finditer(r'\%s(.*?)\%s' % (start, end), string)]
\* scanning from position pos, for one-character non-alphanumeric start and
\* end and a string without newlines: the leftmost start that has an end
\* after it, up to the first such end (non-greedy), then on from behind it.
RECURSIVE ReFindIter(_, _, _, _)
ReFindIter(string, start, end, pos) ==
    LET i == IndexFrom(string, start, pos)
        j == IndexFrom(string, end, i + 1)
    IN  IF i = 0 \/ j = 0 THEN <<>>
        ELSE <<SubSeq(string, i + 1, j - 1)>> \o ReFindIter(string, start, end, j + 1)

\* string.replace(old, new) for a non-empty old: every non-overlapping
\* occurrence, left to right
RECURSIVE StrReplace(_, _, _)
StrReplace(string, old, new) ==
    IF Len(string) < Len(old) THEN string
    ELSE IF SubSeq(string, 1, Len(old)) = old
         THEN new \o StrReplace(SubSeq(string, Len(old) + 1, Len(string)), old, new)
         ELSE <<Head(string)>> \o StrReplace(Tail(string), old, new)

\* faulty variant of Indexed (sensitivity of the properties): the index written without its braces
Indexed_Bare(idx) == PyStr(idx)

\* the replacement written for the idx-th example: "{{" + str(idx) + "}}"
Indexed(idx) == <<"{", "{">> \o PyStr(idx) \o <<"}", "}">>

\* for idx, example in enumerate(examples, start=1): string = string.replace(...)
\* from index idx on
RECURSIVE ReplaceLoop(_, _, _, _, _)
ReplaceLoop(string, examples, idx, start, end) ==
    IF idx > Len(examples) THEN string
    ELSE ReplaceLoop(
            StrReplace(string, <<start>> \o examples[idx] \o <<end>>, Indexed(idx)),
            examples, idx + 1, start, end)

\* _get_examples_from_placeholders(string, start, end): (string, tuple(examples))
get_examples_from_placeholders(string, start, end) ==
    LET examples == ReFindIter(string, start, end, 1)
    IN  [string |-> ReplaceLoop(string, examples, 1, start, end),
         examples |-> examples]

----------------------------------------------------------------------------
(* Python values that share an attribute with None.                        *)

\* a str held where None may be held too; value is a sequence of characters
StrVal(s) == [cls |-> "str", value |-> s]
\* an int held where None or a str may be held too
IntVal(n) == [cls |-> "int", value |-> n]
List(items) == [cls |-> "list", items |-> items]
Tuple(items) == [cls |-> "tuple", items |-> items]
\* a one-shot iterator that has items left to yield
Iterator(items) == [cls |-> "iterator", items |-> items]

\* bool(x): None, 0, '' and the empty list or tuple are false; an instance of
\* a dataclass that defines neither __bool__ nor __len__ is true, and so is
\* an iterator, exhausted or not
Truthy(x) ==
    CASE x.cls = "None" -> FALSE
      [] x.cls = "int" -> x.value # 0
      [] x.cls = "str" -> x.value # <<>>
      [] x.cls \in {"list", "tuple"} -> x.items # <<>>
      [] OTHER -> TRUE

\* start and end as the callers pass them on:
\* _get_examples_from_placeholders(text, *(placeholder if placeholder else ()))
PlaceholderStart(placeholder) ==
    IF Truthy(placeholder) THEN placeholder.items[1] ELSE DefaultStart
PlaceholderEnd(placeholder) ==
    IF Truthy(placeholder) THEN placeholder.items[2] ELSE DefaultEnd

----------------------------------------------------------------------------
(* Definition-time components: the classes of NewTemplate.                 *)

TextHeader(text) ==
    [cls |-> "TextHeader", type |-> "HEADER", format |-> "TEXT", text |-> text]
ImageHeader(examples) ==
    [cls |-> "ImageHeader", type |-> "HEADER", format |-> "IMAGE", examples |-> examples]
VideoHeader(examples) ==
    [cls |-> "VideoHeader", type |-> "HEADER", format |-> "VIDEO", examples |-> examples]
DocumentHeader(examples) ==
    [cls |-> "DocumentHeader", type |-> "HEADER", format |-> "DOCUMENT", examples |-> examples]
LocationHeader ==
    [cls |-> "LocationHeader", type |-> "HEADER", format |-> "LOCATION"]
Body(text) == [cls |-> "Body", type |-> "BODY", text |-> text]
AuthBody(code_expiration_minutes, add_security_recommendation) ==
    [cls |-> "AuthBody",
     code_expiration_minutes |-> code_expiration_minutes,
     add_security_recommendation |-> add_security_recommendation]
Footer(text) == [cls |-> "Footer", type |-> "FOOTER", text |-> text]
PhoneNumberButton(title, phone_number) ==
    [cls |-> "PhoneNumberButton", type |-> "PHONE_NUMBER",
     title |-> title, phone_number |-> phone_number]
UrlButton(title, url) ==
    [cls |-> "UrlButton", type |-> "URL", title |-> title, url |-> url]
QuickReplyButton(text) ==
    [cls |-> "QuickReplyButton", type |-> "QUICK_REPLY", text |-> text]
OTPButton(otp_type, title, autofill_text, package_name, signature_hash) ==
    [cls |-> "OTPButton", type |-> "OTP", otp_type |-> otp_type, title |-> title,
     autofill_text |-> autofill_text, package_name |-> package_name,
     signature_hash |-> signature_hash]

\* faulty variant of OTPButton_post_init_raises (sensitivity of the
\* properties): the two fields are compared with None
OTPButton_post_init_raises_NoneOnly(self) ==
    /\ self.otp_type = "ONE_TAP"
    /\ ~(self.package_name # None /\ self.signature_hash # None)

\* OTPButton.__post_init__: does it raise
OTPButton_post_init_raises(self) ==
    /\ self.otp_type = "ONE_TAP"
    /\ ~(Truthy(self.package_name) /\ Truthy(self.signature_hash))

\* faulty variant of TextHeader_to_dict (sensitivity of the properties): example=... is passed unconditionally, as
\* UrlButton.to_dict does
TextHeader_to_dict_AlwaysExample(self, placeholder) ==
    LET r == get_examples_from_placeholders(
                self.text, PlaceholderStart(placeholder), PlaceholderEnd(placeholder))
    IN  [type |-> self.type, format |-> self.format, text |-> r.string,
         example |-> [header_text |-> r.examples]]

\* TextHeader.to_dict(placeholder)
TextHeader_to_dict(self, placeholder) ==
    LET r == get_examples_from_placeholders(
                self.text, PlaceholderStart(placeholder), PlaceholderEnd(placeholder))
    IN  [type |-> self.type, format |-> self.format, text |-> r.string]
        @@ (IF r.examples # <<>> THEN [example |-> [header_text |-> r.examples]] ELSE <<>>)

\* ImageHeader.to_dict(), VideoHeader.to_dict(), DocumentHeader.to_dict()
MediaHeader_to_dict(self) ==
    [type |-> self.type, format |-> self.format,
     example |-> [header_handle |-> self.examples]]

\* LocationHeader.to_dict()
LocationHeader_to_dict(self) == [type |-> self.type, format |-> self.format]

\* Body.to_dict(placeholder)
Body_to_dict(self, placeholder) ==
    LET r == get_examples_from_placeholders(
                self.text, PlaceholderStart(placeholder), PlaceholderEnd(placeholder))
    IN  [type |-> self.type, text |-> r.string]
        @@ (IF r.examples # <<>> THEN [example |-> [body_text |-> <<r.examples>>]] ELSE <<>>)

\* Footer.to_dict()
Footer_to_dict(self) == [type |-> self.type, text |-> self.text]

\* str(x) for a str or an int
StrOf(x) == IF x.cls = "int" THEN PyStr(x.value) ELSE x.value

\* PhoneNumberButton.to_dict(placeholder)
PhoneNumberButton_to_dict(self, placeholder) ==
    [type |-> self.type, text |-> self.title, phone_number |-> StrOf(self.phone_number)]

\* UrlButton.to_dict(placeholder); the value of example is
\* (examples if examples else {})
UrlButton_to_dict(self, placeholder) ==
    LET t == get_examples_from_placeholders(
                self.title, PlaceholderStart(placeholder), PlaceholderEnd(placeholder))
        u == get_examples_from_placeholders(
                self.url, PlaceholderStart(placeholder), PlaceholderEnd(placeholder))
        examples == t.examples \o u.examples
    IN  [type |-> self.type, text |-> t.string, url |-> u.string]
        @@ [example |-> IF examples # <<>> THEN examples ELSE <<>>]

\* QuickReplyButton.to_dict(placeholder)
QuickReplyButton_to_dict(self, placeholder) == [type |-> self.type, text |-> self.text]

\* faulty variant of OTPButton_to_dict (sensitivity of the properties):
\* autofill_text is compared with None
OTPButton_to_dict_AutofillNotNone(self) ==
    LET base == [type |-> self.type, otp_type |-> self.otp_type, text |-> self.title]
    IN  IF self.otp_type = "ONE_TAP"
        THEN base @@ [package_name |-> self.package_name,
                      signature_hash |-> self.signature_hash]
                  @@ (IF self.autofill_text # None
                      THEN [autofill_text |-> self.autofill_text] ELSE <<>>)
        ELSE base

\* OTPButton.to_dict()
OTPButton_to_dict(self) ==
    LET base == [type |-> self.type, otp_type |-> self.otp_type, text |-> self.title]
    IN  IF self.otp_type = "ONE_TAP"
        THEN base @@ [package_name |-> self.package_name,
                      signature_hash |-> self.signature_hash]
                  @@ (IF Truthy(self.autofill_text)
                      THEN [autofill_text |-> self.autofill_text] ELSE <<>>)
        ELSE base

\* the numbers of positional arguments the to_dict of each class accepts
\* besides self; AuthBody defines no to_dict
ToDictArity(cls) ==
    CASE cls \in {"TextHeader", "Body", "PhoneNumberButton", "UrlButton",
                  "QuickReplyButton"} -> {0, 1}
      [] cls \in {"ImageHeader", "VideoHeader", "DocumentHeader", "LocationHeader",
                  "Footer", "OTPButton"} -> {0}
      [] OTHER -> {}

\* obj.to_dict(*args) on a definition-time component: AttributeError when
\* the class has no to_dict, TypeError when it does not take that many
\* arguments
NewComponent_to_dict(obj, args) ==
    LET placeholder == IF args = <<>> THEN None ELSE args[1]
    IN  IF ToDictArity(obj.cls) = {} THEN Raised("AttributeError")
        ELSE IF Len(args) \notin ToDictArity(obj.cls) THEN Raised("TypeError")
        ELSE CASE obj.cls = "TextHeader" -> Returned(TextHeader_to_dict(obj, placeholder))
               [] obj.cls \in {"ImageHeader", "VideoHeader", "DocumentHeader"} ->
                    Returned(MediaHeader_to_dict(obj))
               [] obj.cls = "LocationHeader" -> Returned(LocationHeader_to_dict(obj))
               [] obj.cls = "Body" -> Returned(Body_to_dict(obj, placeholder))
               [] obj.cls = "Footer" -> Returned(Footer_to_dict(obj))
               [] obj.cls = "PhoneNumberButton" ->
                    Returned(PhoneNumberButton_to_dict(obj, placeholder))
               [] obj.cls = "UrlButton" -> Returned(UrlButton_to_dict(obj, placeholder))
               [] obj.cls = "QuickReplyButton" ->
                    Returned(QuickReplyButton_to_dict(obj, placeholder))
               [] obj.cls = "OTPButton" -> Returned(OTPButton_to_dict(obj))

\* the least element of a non-empty set of integers
Min(S) == CHOOSE x \in S : \A y \in S : x <= y

\* how many elements a loop `f(e) for e in x` takes from x when calls holds
\* the outcomes of f on the elements of x: all of them, or those up to the
\* first call that raises
Taken(calls) ==
    LET raised == {i \in 1..Len(calls) : IsRaised(calls[i])}
    IN  IF raised = {} THEN Len(calls) ELSE Min(raised)

\* faulty variant of Advanced (sensitivity of the properties): a list or a
\* tuple loses the elements a loop took from it, as an iterator does
Advanced_AnyIterable(x, n) ==
    IF x.cls \in {"iterator", "list", "tuple"}
    THEN [x EXCEPT !.items = SubSeq(x.items, n + 1, Len(x.items))]
    ELSE x

\* the object x after a loop took n elements from it: an iterator has lost
\* them, any other object is as it was
Advanced(x, n) ==
    IF x.cls = "iterator"
    THEN Iterator(SubSeq(x.items, n + 1, Len(x.items)))
    ELSE x

----------------------------------------------------------------------------
(* NewTemplate: the template definition and its assembler.                 *)

NewTemplate(name, category, language, body, header, footer, buttons) ==
    [cls |-> "NewTemplate", name |-> name, category |-> category,
     language |-> language, body |-> body, header |-> header, footer |-> footer,
     buttons |-> buttons]

\* NewTemplate.__post_init__: does it raise ValueError
NewTemplate_post_init_raises(self) ==
    /\ self.category = "AUTHENTICATION"
    /\ ~(self.body.cls = "AuthBody" \/ self.buttons.cls = "OTPButton")

\* the document NewTemplate.to_dict returns around its components
NewTemplateDocument(self, components) ==
    [name |-> self.name, category |-> self.category, language |-> self.language,
     components |-> components]

\* faulty variant of NewTemplate_to_dict_auth (sensitivity of the
\* properties): code_expiration_minutes is compared with None
NewTemplate_to_dict_auth_FooterNotNone(self) ==
    LET buttons == NewComponent_to_dict(self.buttons, <<>>)
    IN  IF IsRaised(buttons) THEN buttons
        ELSE IF "add_security_recommendation" \notin DOMAIN self.body
             THEN Raised("AttributeError")
        ELSE Returned(NewTemplateDocument(self,
                <<[type |-> "BUTTONS", buttons |-> <<buttons.value>>],
                  [type |-> "BODY",
                   add_security_recommendation |-> self.body.add_security_recommendation]>>
                \o (IF self.body.code_expiration_minutes # None
                    THEN <<[type |-> "FOOTER",
                            code_expiration_minutes |-> self.body.code_expiration_minutes]>>
                    ELSE <<>>)))

\* NewTemplate.to_dict, the branch taken when buttons is an OTPButton; the
\* attributes of self.body are read after self.buttons.to_dict() returned
NewTemplate_to_dict_auth(self) ==
    LET buttons == NewComponent_to_dict(self.buttons, <<>>)
    IN  IF IsRaised(buttons) THEN buttons
        ELSE IF "add_security_recommendation" \notin DOMAIN self.body
             THEN Raised("AttributeError")
        ELSE Returned(NewTemplateDocument(self,
                <<[type |-> "BUTTONS", buttons |-> <<buttons.value>>],
                  [type |-> "BODY",
                   add_security_recommendation |-> self.body.add_security_recommendation]>>
                \o (IF Truthy(self.body.code_expiration_minutes)
                    THEN <<[type |-> "FOOTER",
                            code_expiration_minutes |-> self.body.code_expiration_minutes]>>
                    ELSE <<>>)))

\* NewTemplate.to_dict, the other branch: body, header, footer and buttons are
\* rendered in this order and the first call that raises ends the render
NewTemplate_to_dict_standard(self, placeholder) ==
    LET body == NewComponent_to_dict(self.body, <<placeholder>>)
        header == IF Truthy(self.header)
                  THEN NewComponent_to_dict(self.header, <<placeholder>>)
                  ELSE Returned(None)
        footer == IF Truthy(self.footer)
                  THEN NewComponent_to_dict(self.footer, <<>>)
                  ELSE Returned(None)
        buttons == IF Truthy(self.buttons)
                   THEN [i \in 1..Len(self.buttons.items) |->
                            NewComponent_to_dict(self.buttons.items[i], <<placeholder>>)]
                   ELSE <<>>
        calls == <<body, header, footer>> \o buttons
        raised == {i \in 1..Len(calls) : IsRaised(calls[i])}
    IN  IF raised # {} THEN calls[Min(raised)]
        ELSE Returned(NewTemplateDocument(self,
                <<body.value>>
                \o (IF Truthy(self.header) THEN <<header.value>> ELSE <<>>)
                \o (IF Truthy(self.footer) THEN <<footer.value>> ELSE <<>>)
                \o (IF Truthy(self.buttons)
                    THEN <<[type |-> "BUTTONS",
                            buttons |-> [i \in 1..Len(buttons) |-> buttons[i].value]]>>
                    ELSE <<>>)))

\* NewTemplate.to_dict(placeholder)
NewTemplate_to_dict(self, placeholder) ==
    IF self.buttons.cls = "OTPButton"
    THEN NewTemplate_to_dict_auth(self)
    ELSE NewTemplate_to_dict_standard(self, placeholder)

\* self as NewTemplate.to_dict(placeholder) leaves it: no attribute is
\* assigned; on the standard path, once body, header and footer are rendered
\* without an exception, tuple(button.to_dict(placeholder) for button in
\* self.buttons) runs if self.buttons is true and takes the elements of buttons
NewTemplate_after_to_dict(self, placeholder) ==
    LET body == NewComponent_to_dict(self.body, <<placeholder>>)
        header == IF Truthy(self.header)
                  THEN NewComponent_to_dict(self.header, <<placeholder>>)
                  ELSE Returned(None)
        footer == IF Truthy(self.footer)
                  THEN NewComponent_to_dict(self.footer, <<>>)
                  ELSE Returned(None)
    IN  IF \/ self.buttons.cls = "OTPButton"
           \/ IsRaised(body) \/ IsRaised(header) \/ IsRaised(footer)
           \/ ~Truthy(self.buttons)
        THEN self
        ELSE [self EXCEPT !.buttons =
                Advanced(self.buttons,
                         Taken([i \in 1..Len(self.buttons.items) |->
                                  NewComponent_to_dict(self.buttons.items[i],
                                                       <<placeholder>>)]))]

----------------------------------------------------------------------------
(* Template: the template to send and its assembler.                       *)

TextValue(value) == [cls |-> "TextValue", type |-> "text", value |-> value]
Currency(fallback_value, code, amount_1000) ==
    [cls |-> "Currency", type |-> "currency", fallback_value |-> fallback_value,
     code |-> code, amount_1000 |-> amount_1000]
DateTime(fallback_value) ==
    [cls |-> "DateTime", type |-> "date_time", fallback_value |-> fallback_value]
Document(document) == [cls |-> "Document", type |-> "document", document |-> document]
Image(image) == [cls |-> "Image", type |-> "image", image |-> image]
Video(video) == [cls |-> "Video", type |-> "video", video |-> video]
Location(latitude, longitude, name, address) ==
    [cls |-> "Location", type |-> "location", latitude |-> latitude,
     longitude |-> longitude, name |-> name, address |-> address]
QuickReplyButtonData(data) ==
    [cls |-> "QuickReplyButtonData", type |-> "button", sub_type |-> "quick_reply",
     data |-> data]
UrlButtonValue(value) ==
    [cls |-> "UrlButtonValue", type |-> "button", sub_type |-> "url", value |-> value]
OTPButtonCode(code) ==
    [cls |-> "OTPButtonCode", type |-> "button", sub_type |-> "url", code |-> code]

Template(name, language, body, header, buttons) ==
    [cls |-> "Template", name |-> name, language |-> language, body |-> body,
     header |-> header, buttons |-> buttons]

TextValue_to_dict(self) == [type |-> self.type, text |-> self.value]
Currency_to_dict(self) ==
    [type |-> self.type,
     currency |-> [fallback_value |-> self.fallback_value, code |-> self.code,
                   amount_1000 |-> self.amount_1000]]
DateTime_to_dict(self) ==
    [type |-> self.type, date_time |-> [fallback_value |-> self.fallback_value]]
Document_to_dict(self, is_url) ==
    [type |-> self.type,
     document |-> IF is_url THEN [url |-> self.document] ELSE [id |-> self.document]]
Image_to_dict(self, is_url) ==
    [type |-> self.type,
     image |-> IF is_url THEN [url |-> self.image] ELSE [id |-> self.image]]
Video_to_dict(self, is_url) ==
    [type |-> self.type,
     video |-> IF is_url THEN [url |-> self.video] ELSE [id |-> self.video]]
Location_to_dict(self) ==
    [type |-> self.type,
     location |-> [latitude |-> self.latitude, longitude |-> self.longitude]
                  @@ (IF Truthy(self.name) THEN [name |-> self.name] ELSE <<>>)
                  @@ (IF Truthy(self.address) THEN [address |-> self.address] ELSE <<>>)]
QuickReplyButtonData_to_dict(self) == [type |-> "payload", payload |-> self.data]
UrlButtonValue_to_dict(self) == [type |-> "text", text |-> self.value]
OTPButtonCode_to_dict(self) == [type |-> "text", text |-> self.code]

\* the numbers of positional arguments the to_dict of each class accepts
\* besides self (is_url has a default in TextValue only)
SendToDictArity(cls) ==
    CASE cls = "TextValue" -> {0, 1}
      [] cls \in {"Document", "Image", "Video"} -> {1}
      [] cls \in {"Currency", "DateTime", "Location", "QuickReplyButtonData",
                  "UrlButtonValue", "OTPButtonCode"} -> {0}
      [] OTHER -> {}

\* obj.to_dict(*args) on a send-time component
SendComponent_to_dict(obj, args) ==
    IF SendToDictArity(obj.cls) = {} THEN Raised("AttributeError")
    ELSE IF Len(args) \notin SendToDictArity(obj.cls) THEN Raised("TypeError")
    ELSE CASE obj.cls = "TextValue" -> Returned(TextValue_to_dict(obj))
           [] obj.cls = "Currency" -> Returned(Currency_to_dict(obj))
           [] obj.cls = "DateTime" -> Returned(DateTime_to_dict(obj))
           [] obj.cls = "Document" -> Returned(Document_to_dict(obj, args[1]))
           [] obj.cls = "Image" -> Returned(Image_to_dict(obj, args[1]))
           [] obj.cls = "Video" -> Returned(Video_to_dict(obj, args[1]))
           [] obj.cls = "Location" -> Returned(Location_to_dict(obj))
           [] obj.cls = "QuickReplyButtonData" -> Returned(QuickReplyButtonData_to_dict(obj))
           [] obj.cls = "UrlButtonValue" -> Returned(UrlButtonValue_to_dict(obj))
           [] obj.cls = "OTPButtonCode" -> Returned(OTPButtonCode_to_dict(obj))

\* faulty variant of Iter (sensitivity of the properties): an OTPButtonCode yields nothing
Iter_OTPYieldsNothing(x) == IF x.cls = "OTPButtonCode" THEN <<>> ELSE x.items

\* the elements iterating over x yields: those of a list or tuple, those an
\* iterator has left; OTPButtonCode.__iter__ yields the object itself, once
Iter(x) == IF x.cls = "OTPButtonCode" THEN <<x>> ELSE x.items

\* faulty variant of Template_post_init (sensitivity of the properties): only the header is checked
Template_post_init_HeaderOnly(self) ==
    IF self.buttons.cls = "OTPButtonCode"
    THEN IF Truthy(self.header)
         THEN Raised("ValueError")
         ELSE Returned([self EXCEPT !.body = Tuple(<<TextValue(self.buttons.code)>>)])
    ELSE Returned(self)

\* Template.__post_init__: Raised(ValueError), or Returned(self as it leaves it)
Template_post_init(self) ==
    IF self.buttons.cls = "OTPButtonCode"
    THEN IF Truthy(self.header) \/ Truthy(self.body)
         THEN Raised("ValueError")
         ELSE Returned([self EXCEPT !.body = Tuple(<<TextValue(self.buttons.code)>>)])
    ELSE Returned(self)

\* one component of the send document for the button b at position idx
\* (0-based): dict(type=b.type.value, sub_type=b.sub_type.value, index=idx,
\* parameters=(b.to_dict(),)) reads b.type and b.sub_type, an AttributeError
\* when b has no such attribute, and calls b.to_dict() after them
ButtonComponent(b, idx) ==
    IF "type" \notin DOMAIN b \/ "sub_type" \notin DOMAIN b
    THEN Raised("AttributeError")
    ELSE LET parameter == SendComponent_to_dict(b, <<>>)
         IN  IF IsRaised(parameter) THEN parameter
             ELSE Returned([type |-> b.type, sub_type |-> b.sub_type, index |-> idx,
                            parameters |-> <<parameter.value>>])

\* Template.to_dict(is_header_url): body, header and buttons are rendered in
\* this order and the first call that raises ends the render
Template_to_dict(self, is_header_url) ==
    LET body == IF Truthy(self.body)
                THEN [i \in 1..Len(Iter(self.body)) |->
                        SendComponent_to_dict(Iter(self.body)[i], <<>>)]
                ELSE <<>>
        header == IF Truthy(self.header)
                  THEN SendComponent_to_dict(self.header, <<is_header_url>>)
                  ELSE Returned(None)
        buttons == IF self.buttons # None
                   THEN [i \in 1..Len(Iter(self.buttons)) |->
                            ButtonComponent(Iter(self.buttons)[i], i - 1)]
                   ELSE <<>>
        calls == body \o <<header>> \o buttons
        raised == {i \in 1..Len(calls) : IsRaised(calls[i])}
    IN  IF raised # {} THEN calls[Min(raised)]
        ELSE Returned(
                [name |-> self.name,
                 language |-> [code |-> self.language],
                 components |->
                    (IF Truthy(self.body)
                     THEN <<[type |-> "BODY",
                             parameters |-> [i \in 1..Len(body) |-> body[i].value]]>>
                     ELSE <<>>)
                    \o (IF Truthy(self.header)
                        THEN <<[type |-> "HEADER", parameters |-> <<header.value>>]>>
                        ELSE <<>>)
                    \o [i \in 1..Len(buttons) |-> buttons[i].value]])

\* self as Template.to_dict(is_header_url) leaves it: no attribute is
\* assigned; the loop over self.body runs if self.body is true, then the
\* header is rendered, then the loop over self.buttons runs if self.buttons
\* is not None; an exception ends the render where it is raised
Template_after_to_dict(self, is_header_url) ==
    LET body == IF Truthy(self.body)
                THEN [i \in 1..Len(Iter(self.body)) |->
                        SendComponent_to_dict(Iter(self.body)[i], <<>>)]
                ELSE <<>>
        header == IF Truthy(self.header)
                  THEN SendComponent_to_dict(self.header, <<is_header_url>>)
                  ELSE Returned(None)
        buttons == IF self.buttons # None
                   THEN [i \in 1..Len(Iter(self.buttons)) |->
                            ButtonComponent(Iter(self.buttons)[i], i - 1)]
                   ELSE <<>>
        body_raised == \E i \in 1..Len(body) : IsRaised(body[i])
    IN  [self EXCEPT
            !.body = IF Truthy(self.body)
                     THEN Advanced(self.body, Taken(body)) ELSE self.body,
            !.buttons = IF ~body_raised /\ ~IsRaised(header) /\ self.buttons # None
                        THEN Advanced(self.buttons, Taken(buttons))
                        ELSE self.buttons]

\* is sub a contiguous substring of s
Occurs(sub, s) ==
    \E i \in 1..(Len(s) - Len(sub) + 1) : SubSeq(s, i, i + Len(sub) - 1) = sub

\* number of positions at which sub starts in s
CountOccurrences(sub, s) ==
    Cardinality({i \in 1..(Len(s) - Len(sub) + 1) : SubSeq(s, i, i + Len(sub) - 1) = sub})

----------------------------------------------------------------------------
(* The state machine.  A run exercises one part of the module (unit): the  *)
(* extractor, one definition-time component, one NewTemplate or one        *)
(* Template.  An object is constructed once and rendered any number of     *)
(* times.                                                                  *)

Init ==
    /\ unit \in {"extractor", "component", "new_template", "template"}
    /\ ex_string = <<>> /\ ex_ret = NotCalled /\ ex_ret2 = NotCalled
    /\ comp_args = None /\ comp = None /\ comp_new = NotCalled
    /\ comp_placeholder = <<>> /\ comp_ret = NotCalled
    /\ nt_args = None /\ nt = None /\ nt_new = NotCalled
    /\ nt_self = None /\ nt_placeholder = None /\ nt_ret = NotCalled
    /\ tpl_args = None /\ tpl = None /\ tpl_new = NotCalled
    /\ tpl_self = None /\ tpl_is_header_url = FALSE /\ tpl_ret = NotCalled

(* The extractor called on its own.                                        *)

Strings == SeqsUpTo(Alphabet, MaxLen)

\* _get_examples_from_placeholders(s) with the default start and end
Extract(s) ==
    /\ unit = "extractor"
    /\ ex_ret = NotCalled
    /\ ex_string' = s
    /\ ex_ret' = Returned(get_examples_from_placeholders(s, DefaultStart, DefaultEnd))
    /\ UNCHANGED <<unit, ex_ret2, comp_vars, nt_vars, tpl_vars>>

\* a second call, on the string the first call returned
ExtractAgain ==
    /\ unit = "extractor"
    /\ IsReturned(ex_ret)
    /\ ex_ret2 = NotCalled
    /\ ex_ret2' = Returned(get_examples_from_placeholders(
                        ex_ret.value.string, DefaultStart, DefaultEnd))
    /\ UNCHANGED <<unit, ex_string, ex_ret, comp_vars, nt_vars, tpl_vars>>

ExtractorNext == (\E s \in Strings : Extract(s)) \/ ExtractAgain

(* One definition-time component.                                          *)

\* 'Hi', 'Hi {a}', '{a}{b}', '{a}{a}', '(a)', '{a}(b)' and ''
Texts ==
    {<<>>,
     <<"H", "i">>,
     <<"H", "i", " ", "{", "a", "}">>,
     <<"{", "a", "}", "{", "b", "}">>,
     <<"{", "a", "}", "{", "a", "}">>,
     <<"(", "a", ")">>,
     <<"{", "a", "}", "(", "b", ")">>}

\* the placeholder arguments: absent (None), or a pair (start, end)
Placeholders == {None, Tuple(<<"{", "}">>), Tuple(<<"(", ")">>)}

\* media handles, as the upload API returns them
Handles == {<<>>, <<"h1">>, <<"h1", "h2">>}

PhoneNumbers == {StrVal(<<"1", "2">>), IntVal(12), IntVal(0)}

OptionalStrings == {None, StrVal(<<>>), StrVal(<<"x">>)}

\* package_name and signature_hash: absent, '' or a value
PackageNames == {None, StrVal(<<>>), StrVal(<<"p">>)}
SignatureHashes == {None, StrVal(<<>>), StrVal(<<"s">>)}

\* the OTPButton(...) calls: the object as the dataclass fills it before
\* __post_init__ runs
OTPButtonCalls ==
    {OTPButton(t, title, autofill_text, package_name, signature_hash) :
        t \in {"COPY_CODE", "ONE_TAP"},
        title \in {None, StrVal(<<"x">>)},
        autofill_text \in OptionalStrings,
        package_name \in PackageNames,
        signature_hash \in SignatureHashes}

\* the OTPButton objects whose construction succeeds
OTPButtons == {b \in OTPButtonCalls : ~OTPButton_post_init_raises(b)}

Components ==
    {TextHeader(t) : t \in Texts} \cup {Body(t) : t \in Texts}
    \cup {Footer(t) : t \in Texts}
    \cup {ImageHeader(h) : h \in Handles} \cup {VideoHeader(h) : h \in Handles}
    \cup {DocumentHeader(h) : h \in Handles} \cup {LocationHeader}
    \cup {PhoneNumberButton(t, n) : t \in Texts, n \in PhoneNumbers}
    \cup {UrlButton(t, u) : t \in Texts, u \in Texts}
    \cup {QuickReplyButton(t) : t \in Texts}
    \cup OTPButtonCalls

\* does __post_init__ of the object's class raise ValueError (of the
\* component classes, only OTPButton defines a __post_init__)
Component_post_init_raises(c) ==
    c.cls = "OTPButton" /\ OTPButton_post_init_raises(c)

\* the component constructor is called: the dataclass stores the arguments,
\* then __post_init__ runs
NewComponent(c) ==
    /\ unit = "component"
    /\ comp_new = NotCalled
    /\ comp_args' = c
    /\ IF Component_post_init_raises(c)
       THEN comp' = None /\ comp_new' = Raised("ValueError")
       ELSE comp' = c /\ comp_new' = Returned(None)
    /\ UNCHANGED <<unit, comp_placeholder, comp_ret, ex_vars, nt_vars, tpl_vars>>

\* comp.to_dict(*args), with no argument or with a placeholder argument
ComponentToDict(args) ==
    /\ unit = "component"
    /\ comp # None
    /\ comp_placeholder' = args
    /\ comp_ret' = NewComponent_to_dict(comp, args)
    /\ UNCHANGED <<unit, comp_args, comp, comp_new, ex_vars, nt_vars, tpl_vars>>

ComponentNext ==
    \/ \E c \in Components : NewComponent(c)
    \/ \E args \in {<<>>} \cup {<<p>> : p \in Placeholders} : ComponentToDict(args)

(* One NewTemplate.                                                        *)

Categories == {"AUTHENTICATION", "MARKETING", "UTILITY"}

\* 'Hi' and 'Hi {a}'
BodyTexts == {<<"H", "i">>, <<"H", "i", " ", "{", "a", "}">>}

Bodies ==
    {Body(t) : t \in BodyTexts}
    \cup {AuthBody(m, r) : m \in {None, IntVal(0), IntVal(5)}, r \in BOOLEAN}

Headers ==
    {None, TextHeader(<<"H", "i">>), TextHeader(<<"{", "a", "}", "(", "b", ")">>),
     ImageHeader(<<"h1">>), VideoHeader(<<"h1">>), DocumentHeader(<<"h1", "h2">>),
     LocationHeader}

Footers == {None, Footer(<<"{", "a", "}">>)}

NewButtons ==
    {PhoneNumberButton(<<"{", "a", "}">>, IntVal(12)),
     UrlButton(<<"H", "i">>, <<"(", "a", ")">>),
     QuickReplyButton(<<"H", "i">>)}

\* buttons given as a one-shot iterator: iter([]), iter([b]), iter([b, c])
NewButtonIterators ==
    {Iterator(<<>>),
     Iterator(<<QuickReplyButton(<<"H", "i">>)>>),
     Iterator(<<UrlButton(<<"H", "i">>, <<"(", "a", ")">>),
                PhoneNumberButton(<<"{", "a", "}">>, IntVal(12))>>)}

NewTemplateButtons ==
    {None} \cup {List(b) : b \in SeqsUpTo(NewButtons, MaxNewButtons)}
    \cup NewButtonIterators
    \cup {OTPButton("COPY_CODE", None, None, None, None),
          OTPButton("ONE_TAP", StrVal(<<"x">>), StrVal(<<"x">>),
                    StrVal(<<"p">>), StrVal(<<"s">>))}

\* NewTemplate(name, category, language, body, header, footer, buttons):
\* the dataclass stores the arguments, then __post_init__ runs
NewTemplateCall(category, body, header, footer, buttons) ==
    LET self == NewTemplate("n", category, "en", body, header, footer, buttons)
    IN  /\ unit = "new_template"
        /\ nt_new = NotCalled
        /\ nt_args' = self
        /\ IF NewTemplate_post_init_raises(self)
           THEN nt' = None /\ nt_new' = Raised("ValueError")
           ELSE nt' = self /\ nt_new' = Returned(None)
        /\ UNCHANGED <<unit, nt_self, nt_placeholder, nt_ret, ex_vars, comp_vars, tpl_vars>>

\* nt.to_dict(placeholder): the outcome of the call, and the object as the
\* call leaves it
NewTemplateToDict(placeholder) ==
    /\ unit = "new_template"
    /\ nt # None
    /\ nt_self' = nt
    /\ nt_placeholder' = placeholder
    /\ nt_ret' = NewTemplate_to_dict(nt, placeholder)
    /\ nt' = NewTemplate_after_to_dict(nt, placeholder)
    /\ UNCHANGED <<unit, nt_args, nt_new, ex_vars, comp_vars, tpl_vars>>

NewTemplateNext ==
    \/ \E category \in Categories, body \in Bodies, header \in Headers,
          footer \in Footers, buttons \in NewTemplateButtons :
            NewTemplateCall(category, body, header, footer, buttons)
    \/ \E placeholder \in Placeholders : NewTemplateToDict(placeholder)

(* One Template.                                                           *)

BodyValues == {TextValue("John"), Currency("$1", "USD", 1000), DateTime("today")}

\* a body given as a one-shot iterator: iter([]), iter([v]), iter([v, w])
BodyIterators ==
    {Iterator(<<>>),
     Iterator(<<TextValue("John")>>),
     Iterator(<<Currency("$1", "USD", 1000), DateTime("today")>>)}

TemplateBodies ==
    {None} \cup {List(b) : b \in SeqsUpTo(BodyValues, MaxBody)} \cup BodyIterators

TemplateHeaders ==
    {None, TextValue("15"), Document("media"), Image("media"), Video("media"),
     Location(1, 2, None, None), Location(1, 2, StrVal(<<"x">>), StrVal(<<>>))}

ButtonValues == {QuickReplyButtonData("data"), UrlButtonValue("iphone15")}

\* buttons given as a one-shot iterator: iter([]), iter([b]), iter([b, c])
ButtonIterators ==
    {Iterator(<<>>),
     Iterator(<<UrlButtonValue("iphone15")>>),
     Iterator(<<QuickReplyButtonData("data"), UrlButtonValue("iphone15")>>)}

TemplateButtons ==
    {None} \cup {List(b) : b \in SeqsUpTo(ButtonValues, MaxButtons)}
    \cup ButtonIterators
    \cup {OTPButtonCode("123456"), OTPButtonCode("")}

\* Template(name, language, body, header, buttons): the dataclass stores the
\* arguments, then __post_init__ runs
TemplateCall(body, header, buttons) ==
    LET self == Template("n", "en", body, header, buttons)
        post == Template_post_init(self)
    IN  /\ unit = "template"
        /\ tpl_new = NotCalled
        /\ tpl_args' = self
        /\ IF IsRaised(post)
           THEN tpl' = None /\ tpl_new' = post
           ELSE tpl' = post.value /\ tpl_new' = Returned(None)
        /\ UNCHANGED <<unit, tpl_self, tpl_is_header_url, tpl_ret, ex_vars, comp_vars, nt_vars>>

\* tpl.to_dict(is_header_url): the outcome of the call, and the object as
\* the call leaves it
TemplateToDict(is_header_url) ==
    /\ unit = "template"
    /\ tpl # None
    /\ tpl_self' = tpl
    /\ tpl_is_header_url' = is_header_url
    /\ tpl_ret' = Template_to_dict(tpl, is_header_url)
    /\ tpl' = Template_after_to_dict(tpl, is_header_url)
    /\ UNCHANGED <<unit, tpl_args, tpl_new, ex_vars, comp_vars, nt_vars>>

TemplateNext ==
    \/ \E body \in TemplateBodies, header \in TemplateHeaders,
          buttons \in TemplateButtons : TemplateCall(body, header, buttons)
    \/ \E is_header_url \in BOOLEAN : TemplateToDict(is_header_url)

Next == ExtractorNext \/ ComponentNext \/ NewTemplateNext \/ TemplateNext

Spec == Init /\ [][Next]_vars

\* the runs of each unit
InitExtractor == Init /\ unit = "extractor"
InitComponent == Init /\ unit = "component"
InitNewTemplate == Init /\ unit = "new_template"
InitTemplate == Init /\ unit = "template"
SpecExtractor == InitExtractor /\ [][ExtractorNext]_vars
SpecComponent == InitComponent /\ [][ComponentNext]_vars
SpecNewTemplate == InitNewTemplate /\ [][NewTemplateNext]_vars
SpecTemplate == InitTemplate /\ [][TemplateNext]_vars

\* the runs of the two assemblers
InitAssemblers == Init /\ unit \in {"new_template", "template"}
AssemblersNext == NewTemplateNext \/ TemplateNext
SpecAssemblers == InitAssemblers /\ [][AssemblersNext]_vars

----------------------------------------------------------------------------
(* Construction of the definition (invariant I1).                          *)

\* invariant I1 of the arguments a: AUTHENTICATION exactly with an AuthBody
\* body and an OTPButton
I1(a) ==
    (a.category = "AUTHENTICATION")
        <=> (a.body.cls = "AuthBody" /\ a.buttons.cls = "OTPButton")

\* C1: for every category, body and buttons, NewTemplate(...) succeeds exactly
\* when I1 holds of the arguments, and raises ValueError otherwise; AUTHENTICATION
\* with a standard Body raises whatever the buttons are.
C1_InvariantI1 ==
    nt_new # NotCalled =>
        /\ IsReturned(nt_new) <=> I1(nt_args)
        /\ ~I1(nt_args) => nt_new = Raised("ValueError")
        /\ (nt_args.category = "AUTHENTICATION" /\ nt_args.body.cls = "Body")
                => nt_new = Raised("ValueError")

----------------------------------------------------------------------------
(* Totality of the two assemblers.                                         *)

\* C2: NewTemplate.to_dict returns a document, and never raises, for every
\* NewTemplate whose construction succeeded and every placeholder argument.
\* Stated for the objects that satisfy I1, as construction is to guarantee.
C2_DefinitionRenderTotal ==
    (nt_ret # NotCalled /\ I1(nt)) => IsReturned(nt_ret)

\* C3: Template.to_dict returns a document, and never raises, for every
\* Template whose construction succeeded and both values of is_header_url.
C3_SendRenderTotal ==
    tpl_ret # NotCalled => IsReturned(tpl_ret)

----------------------------------------------------------------------------
(* The OTP code at send time (invariant I3).                               *)

\* the components of a send document that carry a sub_type or an index
ButtonTagged(components) ==
    {i \in 1..Len(components) :
        "sub_type" \in DOMAIN components[i] \/ "index" \in DOMAIN components[i]}

\* the BODY component holding the code as its one text parameter
CodeBody(code) ==
    [type |-> "BODY", parameters |-> <<[type |-> "text", text |-> code]>>]

\* C4 as stated: a Template built with buttons = OTPButtonCode(code = c)
\* renders to a document with exactly one BODY component, whose one parameter
\* is the text value c, and with no component that has a sub_type or an index.
C4_NoButtonComponent ==
    (IsReturned(tpl_ret) /\ tpl.buttons.cls = "OTPButtonCode") =>
        LET components == tpl_ret.value.components
        IN  /\ Cardinality({i \in 1..Len(components) :
                                components[i].type = "BODY"}) = 1
            /\ \E i \in 1..Len(components) : components[i] = CodeBody(tpl.buttons.code)
            /\ ButtonTagged(components) = {}

\* C4 as the code has it: a Template built with buttons = OTPButtonCode(code = c)
\* renders to exactly two components: the BODY component whose one parameter is
\* the text value c, then one button component with sub_type url, index 0 and
\* the text value c as its one parameter.
C4_CodeInBodyAndButton ==
    (IsReturned(tpl_ret) /\ tpl.buttons.cls = "OTPButtonCode") =>
        tpl_ret.value.components =
            <<CodeBody(tpl.buttons.code),
              [type |-> "button", sub_type |-> "url", index |-> 0,
               parameters |-> <<[type |-> "text", text |-> tpl.buttons.code]>>]>>

\* a Template with an OTP code has been rendered
C4_Witness ==
    /\ IsReturned(tpl_ret)
    /\ tpl.buttons = OTPButtonCode("123456")
    /\ Len(tpl_ret.value.components) = 2

\* C5 as stated, of the state the constructor call leaves: with buttons an
\* OTPButtonCode, Template(...) raises ValueError and leaves no object when a
\* header is supplied or the body is non-empty, and otherwise succeeds with
\* body = (TextValue(value=code),); with other buttons it never raises and
\* leaves body, header and buttons as supplied.
C5_InvariantI3 ==
    (tpl_new # NotCalled /\ tpl_ret = NotCalled) =>
        IF tpl_args.buttons.cls = "OTPButtonCode"
        THEN IF \/ tpl_args.header # None
                \/ (tpl_args.body # None /\ tpl_args.body.items # <<>>)
             THEN tpl_new = Raised("ValueError") /\ tpl = None
             ELSE /\ IsReturned(tpl_new)
                  /\ tpl.body = Tuple(<<TextValue(tpl_args.buttons.code)>>)
                  /\ tpl.header = tpl_args.header
                  /\ tpl.buttons = tpl_args.buttons
        ELSE IsReturned(tpl_new) /\ tpl = tpl_args

\* C5 as the code has it: the same, the body that makes the call raise being
\* a non-empty list or tuple, or an iterator, whether it has elements to
\* yield or not; None and an empty list or tuple let the call succeed.
C5_InvariantI3Truthy ==
    (tpl_new # NotCalled /\ tpl_ret = NotCalled) =>
        IF tpl_args.buttons.cls = "OTPButtonCode"
        THEN IF \/ tpl_args.header # None
                \/ tpl_args.body.cls = "iterator"
                \/ (tpl_args.body # None /\ tpl_args.body.items # <<>>)
             THEN tpl_new = Raised("ValueError") /\ tpl = None
             ELSE /\ IsReturned(tpl_new)
                  /\ tpl.body = Tuple(<<TextValue(tpl_args.buttons.code)>>)
                  /\ tpl.header = tpl_args.header
                  /\ tpl.buttons = tpl_args.buttons
        ELSE IsReturned(tpl_new) /\ tpl = tpl_args

\* an OTP code was folded into an empty body
C5_Witness ==
    /\ IsReturned(tpl_new)
    /\ tpl_ret = NotCalled
    /\ tpl_args.buttons.cls = "OTPButtonCode"
    /\ tpl_args.body = List(<<>>)
    /\ tpl.body = Tuple(<<TextValue(tpl_args.buttons.code)>>)

----------------------------------------------------------------------------
(* The extractor.                                                          *)

\* the examples are pairwise distinct
Distinct(examples) ==
    \A i, j \in 1..Len(examples) : i # j => examples[i] # examples[j]

\* index of the first example equal to the j-th
FirstIndex(examples, j) == Min({i \in 1..j : examples[i] = examples[j]})

\* string from position pos on, with the placeholder spans replaced where
\* they stand: the idx-th span by "{{" + str(number[idx]) + "}}", everything
\* else unchanged
RECURSIVE ReplacedInPlace(_, _, _, _, _, _)
ReplacedInPlace(string, start, end, pos, idx, number) ==
    LET i == IndexFrom(string, start, pos)
        j == IndexFrom(string, end, i + 1)
    IN  IF i = 0 \/ j = 0 THEN SubSeq(string, pos, Len(string))
        ELSE SubSeq(string, pos, i - 1) \o Indexed(number[idx])
             \o ReplacedInPlace(string, start, end, j + 1, idx + 1, number)

\* C6: for a string with k placeholders of pairwise distinct contents, the
\* extractor returns the k contents in left-to-right order and the string in
\* which the i-th placeholder is replaced by '{{i}}' and nothing else changes,
\* so that each of '{{1}}' .. '{{k}}' occurs exactly once; also when a
\* content is a digit.
C6_IndexedInPlace ==
    LET contents == ReFindIter(ex_string, DefaultStart, DefaultEnd, 1)
        k == Len(contents)
    IN  (IsReturned(ex_ret) /\ Distinct(contents)) =>
            /\ ex_ret.value.examples = contents
            /\ ex_ret.value.string =
                    ReplacedInPlace(ex_string, DefaultStart, DefaultEnd, 1, 1,
                                    [i \in 1..k |-> i])
            /\ \A i \in 1..k : CountOccurrences(Indexed(i), ex_ret.value.string) = 1

\* C7 as stated: a second call on the string t the first call returned
\* returns (t, ()).
C7_RoundTrip ==
    IsReturned(ex_ret2) =>
        ex_ret2.value = [string |-> ex_ret.value.string, examples |-> <<>>]

\* C7 as the code has it: the second call returns (t, ()) exactly when the
\* first call found no placeholder (and then t is the argument itself); after
\* a first call that found one, the second call finds examples again.
C7_RoundTripOnlyWithoutPlaceholders ==
    IsReturned(ex_ret2) =>
        /\ (ex_ret2.value = [string |-> ex_ret.value.string, examples |-> <<>>])
                <=> (ex_ret.value.examples = <<>>)
        /\ ex_ret.value.examples = <<>> => ex_ret.value.string = ex_string
        /\ ex_ret.value.examples # <<>> => ex_ret2.value.examples # <<>>

\* the second call ran on a string in which the first call had replaced a
\* placeholder
C7_Witness ==
    /\ IsReturned(ex_ret2)
    /\ ex_string = <<"a", "{", "a", "}">>
    /\ ex_ret.value.string = <<"a", "{", "{", "1", "}", "}">>
    /\ ex_ret2.value.examples = <<(<<"{", "1">>)>>

\* C8: when a placeholder text occurs at several positions, the examples
\* still have one entry per occurrence, every occurrence of that placeholder
\* is replaced by '{{j}}' with j the index of its first occurrence, and the
\* indices of the later occurrences do not appear in the returned string.
C8_DuplicateLiteral ==
    LET contents == ReFindIter(ex_string, DefaultStart, DefaultEnd, 1)
        k == Len(contents)
    IN  (IsReturned(ex_ret) /\ ~Distinct(contents)) =>
            /\ ex_ret.value.examples = contents
            /\ ex_ret.value.string =
                    ReplacedInPlace(ex_string, DefaultStart, DefaultEnd, 1, 1,
                                    [i \in 1..k |-> FirstIndex(contents, i)])
            /\ \A j \in 1..k :
                    FirstIndex(contents, j) # j
                        => ~Occurs(Indexed(j), ex_ret.value.string)

----------------------------------------------------------------------------
(* The text-bearing components.                                            *)

\* text holds a start character with an end character somewhere after it
HasPlaceholder(text, start, end) ==
    \E i, j \in 1..Len(text) : i < j /\ text[i] = start /\ text[j] = end

\* the placeholder argument of the last comp.to_dict call (None when absent)
CompPlaceholder == IF comp_placeholder = <<>> THEN None ELSE comp_placeholder[1]

\* what the extractor returns for text under the last call's placeholder
CompExtract(text) ==
    get_examples_from_placeholders(
        text, PlaceholderStart(CompPlaceholder), PlaceholderEnd(CompPlaceholder))

\* C9: UrlButton.to_dict numbers the placeholders of title and of url
\* independently, gives 'example' the title examples followed by the url
\* examples, and has no 'example' key when neither holds a placeholder.
C9_UrlButtonExample ==
    (comp.cls = "UrlButton" /\ IsReturned(comp_ret)) =>
        LET t == CompExtract(comp.title)
            u == CompExtract(comp.url)
            d == comp_ret.value
        IN  /\ d.text = t.string /\ d.url = u.string
            /\ IF t.examples \o u.examples # <<>>
               THEN "example" \in DOMAIN d /\ d.example = t.examples \o u.examples
               ELSE "example" \notin DOMAIN d

\* C10: TextHeader and Body give text the extractor's string and have an
\* 'example' key exactly when the text holds a placeholder: header_text the
\* examples, body_text a one-element list of the examples.  Footer,
\* PhoneNumberButton and QuickReplyButton give their text verbatim and have no
\* 'example' key, whatever the text holds.
C10_ExampleOnlyWithPlaceholders ==
    IsReturned(comp_ret) =>
        LET d == comp_ret.value
            start == PlaceholderStart(CompPlaceholder)
            end == PlaceholderEnd(CompPlaceholder)
        IN  /\ comp.cls \in {"TextHeader", "Body"} =>
                /\ d.text = CompExtract(comp.text).string
                /\ "example" \in DOMAIN d <=> HasPlaceholder(comp.text, start, end)
                /\ "example" \in DOMAIN d <=> CompExtract(comp.text).examples # <<>>
            /\ (comp.cls = "TextHeader" /\ "example" \in DOMAIN d) =>
                d.example = [header_text |-> CompExtract(comp.text).examples]
            /\ (comp.cls = "Body" /\ "example" \in DOMAIN d) =>
                d.example = [body_text |-> <<CompExtract(comp.text).examples>>]
            /\ comp.cls = "Footer" => d = [type |-> "FOOTER", text |-> comp.text]
            /\ comp.cls = "PhoneNumberButton" =>
                d.text = comp.title /\ "example" \notin DOMAIN d
            /\ comp.cls = "QuickReplyButton" =>
                d = [type |-> "QUICK_REPLY", text |-> comp.text]

\* a Body whose text holds two placeholders was rendered with its examples
C10_Witness ==
    /\ IsReturned(comp_ret)
    /\ comp = Body(<<"{", "a", "}", "{", "b", "}">>)
    /\ comp_ret.value.example = [body_text |-> <<(<< <<"a">>, <<"b">> >>)>>]

----------------------------------------------------------------------------
(* The OTP button of a definition.                                         *)

\* C11 as stated: OTPButton(...) with otp_type ONE_TAP raises ValueError
\* unless package_name and signature_hash are both supplied (not None) and
\* succeeds when both are supplied; with COPY_CODE it succeeds whatever
\* package_name and signature_hash are.
C11_RequiredWhenSupplied ==
    (comp_new # NotCalled /\ comp_args.cls = "OTPButton") =>
        IF comp_args.otp_type = "ONE_TAP"
           /\ ~(comp_args.package_name # None /\ comp_args.signature_hash # None)
        THEN comp_new = Raised("ValueError") /\ comp = None
        ELSE IsReturned(comp_new) /\ comp = comp_args

\* C11 as the code has it: OTPButton(...) with otp_type ONE_TAP raises
\* ValueError unless package_name and signature_hash are both supplied and
\* non-empty, and succeeds when they are; with COPY_CODE it succeeds whatever
\* package_name and signature_hash are.
C11_RequiredNonEmpty ==
    (comp_new # NotCalled /\ comp_args.cls = "OTPButton") =>
        IF comp_args.otp_type = "ONE_TAP"
           /\ ~(/\ comp_args.package_name \notin {None, StrVal(<<>>)}
                /\ comp_args.signature_hash \notin {None, StrVal(<<>>)})
        THEN comp_new = Raised("ValueError") /\ comp = None
        ELSE IsReturned(comp_new) /\ comp = comp_args

\* a ONE_TAP button given an empty package_name was refused
C11_Witness ==
    /\ comp_new = Raised("ValueError")
    /\ comp_args.cls = "OTPButton"
    /\ comp_args.otp_type = "ONE_TAP"
    /\ comp_args.package_name = StrVal(<<>>)
    /\ comp_args.signature_hash = StrVal(<<"s">>)

\* the keys of the wire object d among package_name, signature_hash and
\* autofill_text
OTPKeys(d) == DOMAIN d \cap {"package_name", "signature_hash", "autofill_text"}

\* C12 as stated: the wire object of a constructed ONE_TAP button has
\* package_name and signature_hash as given, and has autofill_text exactly when
\* autofill_text was provided (is not None); the wire object of a COPY_CODE
\* button has none of the three keys, whatever the constructor was given.
C12_AutofillWhenProvided ==
    (comp.cls = "OTPButton" /\ IsReturned(comp_ret)) =>
        LET d == comp_ret.value
        IN  IF comp.otp_type = "ONE_TAP"
            THEN /\ {"package_name", "signature_hash"} \subseteq DOMAIN d
                 /\ d.package_name = comp.package_name
                 /\ d.signature_hash = comp.signature_hash
                 /\ "autofill_text" \in DOMAIN d <=> comp.autofill_text # None
                 /\ "autofill_text" \in DOMAIN d => d.autofill_text = comp.autofill_text
            ELSE OTPKeys(d) = {}

\* C12 as the code has it: the same, with autofill_text in the wire object
\* exactly when it was provided and is not the empty string.
C12_AutofillWhenNonEmpty ==
    (comp.cls = "OTPButton" /\ IsReturned(comp_ret)) =>
        LET d == comp_ret.value
        IN  IF comp.otp_type = "ONE_TAP"
            THEN /\ {"package_name", "signature_hash"} \subseteq DOMAIN d
                 /\ d.package_name = comp.package_name
                 /\ d.signature_hash = comp.signature_hash
                 /\ "autofill_text" \in DOMAIN d
                        <=> comp.autofill_text \notin {None, StrVal(<<>>)}
                 /\ "autofill_text" \in DOMAIN d => d.autofill_text = comp.autofill_text
            ELSE OTPKeys(d) = {}

\* a ONE_TAP button with autofill_text = '' was rendered without that key
C12_Witness ==
    /\ IsReturned(comp_ret)
    /\ comp.cls = "OTPButton"
    /\ comp.otp_type = "ONE_TAP"
    /\ comp.autofill_text = StrVal(<<>>)
    /\ OTPKeys(comp_ret.value) = {"package_name", "signature_hash"}

----------------------------------------------------------------------------
(* The definition assembler.                                               *)

\* the object nt takes the authentication path with an AuthBody
AuthPath == nt.buttons.cls = "OTPButton" /\ nt.body.cls = "AuthBody"

\* the first two components of the authentication path
AuthButtonsAndBody ==
    <<[type |-> "BUTTONS", buttons |-> <<OTPButton_to_dict(nt.buttons)>>],
      [type |-> "BODY",
       add_security_recommendation |-> nt.body.add_security_recommendation]>>

\* the FOOTER-tagged component that carries code_expiration_minutes
AuthFooter ==
    [type |-> "FOOTER", code_expiration_minutes |-> nt.body.code_expiration_minutes]

\* C13 as stated: with buttons an OTPButton and body an AuthBody,
\* NewTemplate.to_dict returns, and its components are exactly the BUTTONS
\* component with the one rendered OTP button, the BODY component with only
\* add_security_recommendation, and then the FOOTER component with
\* code_expiration_minutes if and only if code_expiration_minutes is set (not
\* None); a supplied header or footer adds nothing.
C13_FooterWhenSet ==
    (nt_ret # NotCalled /\ AuthPath) =>
        /\ IsReturned(nt_ret)
        /\ nt_ret.value.components =
                AuthButtonsAndBody
                \o (IF nt.body.code_expiration_minutes # None
                    THEN <<AuthFooter>> ELSE <<>>)

\* C13 as the code has it: the same, with the FOOTER component if and only if
\* code_expiration_minutes is set and is not 0.
C13_FooterWhenNonZero ==
    (nt_ret # NotCalled /\ AuthPath) =>
        /\ IsReturned(nt_ret)
        /\ nt_ret.value.components =
                AuthButtonsAndBody
                \o (IF nt.body.code_expiration_minutes \notin {None, IntVal(0)}
                    THEN <<AuthFooter>> ELSE <<>>)

\* an authentication definition with code_expiration_minutes = 5, a header
\* and a footer was rendered to three components
C13_Witness ==
    /\ IsReturned(nt_ret)
    /\ AuthPath
    /\ nt.body.code_expiration_minutes = IntVal(5)
    /\ nt.header # None /\ nt.footer # None
    /\ Len(nt_ret.value.components) = 3
    /\ nt_ret.value.components[3].type = "FOOTER"

\* the component types of the standard path for the object the
\* render found (nt_self): BODY, then
\* HEADER, FOOTER and BUTTONS for the parts that are present (buttons that
\* hold no button count as absent)
StandardTypes ==
    <<"BODY">>
    \o (IF nt_self.header # None THEN <<"HEADER">> ELSE <<>>)
    \o (IF nt_self.footer # None THEN <<"FOOTER">> ELSE <<>>)
    \o (IF nt_self.buttons # None /\ nt_self.buttons.items # <<>> THEN <<"BUTTONS">> ELSE <<>>)

\* the document d wraps components of the types StandardTypes with the name,
\* category and language of that object, and its BUTTONS component lists the rendered
\* buttons of that object in the order of its buttons
StandardDocument(d) ==
    /\ d.name = nt_self.name /\ d.category = nt_self.category /\ d.language = nt_self.language
    /\ Len(d.components) = Len(StandardTypes)
    /\ \A i \in 1..Len(d.components) : d.components[i].type = StandardTypes[i]
    /\ \A i \in 1..Len(d.components) :
            d.components[i].type = "BUTTONS" =>
                /\ Len(d.components[i].buttons) = Len(nt_self.buttons.items)
                /\ \A j \in 1..Len(nt_self.buttons.items) :
                        Returned(d.components[i].buttons[j]) =
                            NewComponent_to_dict(nt_self.buttons.items[j], <<nt_placeholder>>)

\* C14: whenever buttons is not an OTPButton, NewTemplate.to_dict returns the
\* document that wraps, with name, category and language, the components
\* BODY, HEADER, FOOTER, BUTTONS without the absent parts, in this order, the
\* one BUTTONS component listing the rendered buttons in input order.
C14_StandardPath ==
    (nt_ret # NotCalled /\ nt_self.buttons.cls # "OTPButton") =>
        IsReturned(nt_ret) /\ StandardDocument(nt_ret.value)

----------------------------------------------------------------------------
(* The send assembler.                                                     *)

\* the components of the send document that precede the button components:
\* BODY when the body of the object the render found (tpl_self) is non-empty,
\* then HEADER when it has a header
SendPrefixTypes ==
    (IF tpl_self.body # None /\ tpl_self.body.items # <<>> THEN <<"BODY">> ELSE <<>>)
    \o (IF tpl_self.header # None THEN <<"HEADER">> ELSE <<>>)

\* the components of d are those of SendPrefixTypes followed by one button
\* component per element of its list of buttons, in list order, each with
\* its 0-based position as index, the sub_type of its class and one parameter
SendOrdered(d) ==
    LET n == Len(tpl_self.buttons.items)
        k == Len(SendPrefixTypes)
    IN  /\ Len(d.components) = k + n
        /\ \A i \in 1..k : d.components[i].type = SendPrefixTypes[i]
        /\ \A idx \in 0..(n - 1) :
                LET c == d.components[k + idx + 1]
                    b == tpl_self.buttons.items[idx + 1]
                IN  /\ c.type = "button"
                    /\ c.index = idx
                    /\ c.sub_type = (IF b.cls = "QuickReplyButtonData"
                                     THEN "quick_reply" ELSE "url")
                    /\ Len(c.parameters) = 1

\* C15: for every Template whose buttons are a list of n bindings,
\* Template.to_dict returns the BODY component (if the body is non-empty),
\* then the HEADER component (if a header is present), then exactly n button
\* components in list order with index 0..n-1, sub_type quick_reply or url by
\* class, and a one-element parameters list.
C15_SendOrdering ==
    (tpl_ret # NotCalled /\ tpl_self.buttons.cls = "list") =>
        IsReturned(tpl_ret) /\ SendOrdered(tpl_ret.value)

\* the positions of the HEADER components of a send document
HeaderAt(components) ==
    {i \in 1..Len(components) : components[i].type = "HEADER"}

\* the one parameter a header of class Document, Image, Video or TextValue
\* renders to: the media value under url or under id, or the text
HeaderParameter(header, is_header_url) ==
    CASE header.cls = "Document" ->
            [type |-> "document",
             document |-> IF is_header_url THEN [url |-> header.document]
                                           ELSE [id |-> header.document]]
      [] header.cls = "Image" ->
            [type |-> "image",
             image |-> IF is_header_url THEN [url |-> header.image]
                                        ELSE [id |-> header.image]]
      [] header.cls = "Video" ->
            [type |-> "video",
             video |-> IF is_header_url THEN [url |-> header.video]
                                        ELSE [id |-> header.video]]
      [] header.cls = "TextValue" -> [type |-> "text", text |-> header.value]

\* C16: when a header is present, Template.to_dict returns a document with
\* exactly one HEADER component, whose parameters list has exactly one
\* element: for a Document, Image or Video header the value under url when
\* is_header_url is true and under id when it is false, never both; for a
\* TextValue header the text value, whatever the flag.
C16_HeaderRendering ==
    (tpl_ret # NotCalled /\ tpl.header # None) =>
        /\ IsReturned(tpl_ret)
        /\ Cardinality(HeaderAt(tpl_ret.value.components)) = 1
        /\ \A i \in HeaderAt(tpl_ret.value.components) :
                LET parameters == tpl_ret.value.components[i].parameters
                IN  /\ Len(parameters) = 1
                    /\ tpl.header.cls \in {"Document", "Image", "Video", "TextValue"}
                            => parameters[1] = HeaderParameter(tpl.header, tpl_is_header_url)

----------------------------------------------------------------------------
(* Rendering and the rendered object.                                      *)

\* the objects are as construction left them: a NewTemplate holds its
\* arguments, a Template holds its arguments but for the body that
\* __post_init__ fills from an OTP code
AsConstructed ==
    /\ nt # None => nt = nt_args
    /\ tpl # None =>
            \/ tpl = tpl_args
            \/ /\ tpl_args.buttons.cls = "OTPButtonCode"
               /\ tpl = [tpl_args EXCEPT
                            !.body = Tuple(<<TextValue(tpl_args.buttons.code)>>)]

\* a step leaves a constructed object as it is, and a render with the
\* argument of the render before it returns the document that one returned
RenderKeeps ==
    /\ nt # None => nt' = nt
    /\ tpl # None => tpl' = tpl
    /\ (nt_ret # NotCalled /\ nt_placeholder' = nt_placeholder) => nt_ret' = nt_ret
    /\ (tpl_ret # NotCalled /\ tpl_is_header_url' = tpl_is_header_url)
            => tpl_ret' = tpl_ret

HoldsIterator(o) == o.body.cls = "iterator" \/ o.buttons.cls = "iterator"

\* b is a, or a and b are iterators and b has left what a had left but for
\* some leading elements
SameOrAdvanced(a, b) ==
    \/ b = a
    \/ /\ a.cls = "iterator" /\ b.cls = "iterator"
       /\ \E n \in 0..Len(a.items) : b.items = SubSeq(a.items, n + 1, Len(a.items))

\* an object constructed without a one-shot iterator is as construction left
\* it; after a render that returned, an iterator the object holds has nothing
\* left, and the BODY parameters of a send document are as many as the
\* iterator body had left when the render began (none on a second render)
IteratorsSpent ==
    /\ (nt # None /\ ~HoldsIterator(nt_args)) => nt = nt_args
    /\ (tpl # None /\ ~HoldsIterator(tpl_args)) =>
            \/ tpl = tpl_args
            \/ /\ tpl_args.buttons.cls = "OTPButtonCode"
               /\ tpl = [tpl_args EXCEPT
                            !.body = Tuple(<<TextValue(tpl_args.buttons.code)>>)]
    /\ (IsReturned(nt_ret) /\ nt.buttons.cls = "iterator") => nt.buttons.items = <<>>
    /\ (IsReturned(tpl_ret) /\ tpl.body.cls = "iterator") => tpl.body.items = <<>>
    /\ (IsReturned(tpl_ret) /\ tpl.buttons.cls = "iterator") => tpl.buttons.items = <<>>
    /\ (IsReturned(tpl_ret) /\ tpl_self.body.cls = "iterator") =>
            /\ tpl_ret.value.components[1].type = "BODY"
            /\ Len(tpl_ret.value.components[1].parameters) = Len(tpl_self.body.items)

\* a step changes nothing of a constructed object but what an iterator held
\* as body or buttons has left to yield, and a render of an object that holds
\* no iterator, with the argument of the render before it, returns the
\* document that one returned
RenderTakesFromIterators ==
    /\ nt # None =>
            /\ [nt' EXCEPT !.buttons = nt.buttons] = nt
            /\ SameOrAdvanced(nt.buttons, nt'.buttons)
    /\ tpl # None =>
            /\ [tpl' EXCEPT !.body = tpl.body, !.buttons = tpl.buttons] = tpl
            /\ SameOrAdvanced(tpl.body, tpl'.body)
            /\ SameOrAdvanced(tpl.buttons, tpl'.buttons)
    /\ (nt_ret # NotCalled /\ nt_placeholder' = nt_placeholder /\ ~HoldsIterator(nt))
            => nt_ret' = nt_ret
    /\ (tpl_ret # NotCalled /\ tpl_is_header_url' = tpl_is_header_url
            /\ ~HoldsIterator(tpl)) => tpl_ret' = tpl_ret

====
